---- MODULE Spec2Model ----
(***************************************************************************)
(* Cough analysis: the audio analysis pipeline (lib/audio-processor.ts)    *)
(* and the rule-based condition classifier (lib/cough-classifier.ts),      *)
(* with the page that runs a test (app/page.tsx), its audio and camera     *)
(* capture components, the dataset uploader and the dataset manager.       *)
(*                                                                         *)
(* Numbers.  A JavaScript number is modelled as an exact rational          *)
(* [n |-> numerator, d |-> denominator] in lowest terms with d > 0, and    *)
(* NaN as 0/0 = [n |-> 0, d |-> 0], which is what the divisions of the     *)
(* code yield on an empty buffer.  Every comparison with NaN is false, as  *)
(* in IEEE 754.  The rule weights 0.2, 0.3, 0.4 and their sums in source   *)
(* order compare, as doubles, with each other and with 0.3, 0.6 and 0.95   *)
(* exactly as the decimals do (0.3 + 0.3 is the double 0.6, 0.3 + 0.2 and  *)
(* 0.2 + 0.3 are both the double 0.5), so the rational sums order the      *)
(* scores as the code's doubles do.  The quotient of the normalisation is  *)
(* exact here and rounded to a double in the code.                         *)
(***************************************************************************)
EXTENDS Integers, Sequences, FiniteSets, TLC

\* ------------------------------------------------------------------ bounds

\* Longest decoded buffer of the sweep over sample counts 0..MaxSamples.
MaxSamples == 3200
\* Most frames of a feature set handed to the classifier directly.
MaxFrames == 2
\* Largest wall-clock reading of Date.now().
MaxClock == 1
\* Most records of a batch handed to batchClassify.
MaxBatch == 3
\* Longest explicit signal handed to calculateZeroCrossingRate on its own.
MaxSignalLength == 4
\* Most frames of a feature set handed to detectWheezing on its own.
MaxWheezeFrames == 4

\* ----------------------------------------------------------------- numbers

Abs(x) == IF x < 0 THEN -x ELSE x

RECURSIVE GCD(_, _)
GCD(a, b) == IF b = 0 THEN a ELSE GCD(b, a % b)

NaN == [n |-> 0, d |-> 0]

IsNaN(x) == x.d = 0

\* n / d for d >= 0; the only division by zero the code performs is 0 / 0.
Rat(n, d) ==
    IF d = 0 THEN NaN
    ELSE LET g == GCD(Abs(n), d) IN [n |-> n \div g, d |-> d \div g]

Zero == Rat(0, 1)

Lt(a, b) == ~IsNaN(a) /\ ~IsNaN(b) /\ a.n * b.d < b.n * a.d

Gt(a, b) == Lt(b, a)

Add(a, b) ==
    IF IsNaN(a) \/ IsNaN(b) THEN NaN
    ELSE Rat(a.n * b.d + b.n * a.d, a.d * b.d)

Mul(a, b) ==
    IF IsNaN(a) \/ IsNaN(b) THEN NaN
    ELSE Rat(a.n * b.n, a.d * b.d)

\* a / b for b >= 0 (every divisor of the code is a length or a sum of
\* non-negative terms).
Div(a, b) ==
    IF IsNaN(a) \/ IsNaN(b) THEN NaN
    ELSE Rat(a.n * b.d, a.d * b.n)

\* Math.min
MathMin(a, b) ==
    IF IsNaN(a) \/ IsNaN(b) THEN NaN
    ELSE IF Lt(b, a) THEN b ELSE a

\* Math.sqrt on the squares the model meets.
MathSqrt(x) ==
    IF IsNaN(x) THEN NaN
    ELSE Rat(CHOOSE r \in 0..x.n : r * r = x.n, CHOOSE r \in 1..x.d : r * r = x.d)

\* ------------------------------------------- cough-classifier.ts: the rules

\* Coefficients per frame of the feature set.
NumCoefficients == 13

\* The feature set is kept per frame: frame f holds mfccFeatures[13f + 2]
\* and mfccFeatures[13f + 3], the two coefficients the classifier reads.
FeatureLength(mfcc) == NumCoefficients * Len(mfcc)

RECURSIVE WheezingIndicators(_)
WheezingIndicators(mfcc) ==
    IF mfcc = <<>> THEN 0
    ELSE (IF Gt(Head(mfcc).c2, Rat(5, 10)) /\ Lt(Head(mfcc).c3, Rat(-3, 10))
          THEN 1 ELSE 0) + WheezingIndicators(Tail(mfcc))

\* Mutant: half of the frames taken to be enough (>= in place of >).
DetectWheezingAtHalf(mfcc) ==
    ~Lt(Rat(WheezingIndicators(mfcc), 1), Div(Rat(FeatureLength(mfcc), 1), Rat(26, 1)))

\* wheezingIndicators > mfccFeatures.length / 26
DetectWheezing(mfcc) ==
    Gt(Rat(WheezingIndicators(mfcc), 1), Div(Rat(FeatureLength(mfcc), 1), Rat(26, 1)))

Bump(score, fires, weight) == IF fires THEN Add(score, weight) ELSE score

\* Mutant: the dry-cough rule (rms < 0.1) left out.
CovidScoreWithoutRms(a) ==
    LET s1 == Bump(Zero, Gt(a.duration, Rat(5, 10)) /\ Lt(a.duration, Rat(2, 1)), Rat(3, 10))
        s3 == Bump(s1, Gt(a.zeroCrossingRate, Rat(1, 10)), Rat(2, 10))
    IN  Bump(s3, Gt(a.spectralCentroid, Rat(2000, 1)), Rat(3, 10))

CovidScore(a) ==
    LET s1 == Bump(Zero, Gt(a.duration, Rat(5, 10)) /\ Lt(a.duration, Rat(2, 1)), Rat(3, 10))
        s2 == Bump(s1, Lt(a.rms, Rat(1, 10)), Rat(2, 10))
        s3 == Bump(s2, Gt(a.zeroCrossingRate, Rat(1, 10)), Rat(2, 10))
    IN  Bump(s3, Gt(a.spectralCentroid, Rat(2000, 1)), Rat(3, 10))

\* Mutant: the duration rule of Asthma taken inclusively (duration >= 1.0).
AsthmaScoreDurationInclusive(a) ==
    LET s1 == Bump(Zero, ~Lt(a.duration, Rat(1, 1)) /\ ~IsNaN(a.duration), Rat(3, 10))
        s2 == Bump(s1, Lt(a.spectralCentroid, Rat(1500, 1)), Rat(3, 10))
    IN  Bump(s2, DetectWheezing(a.mfccFeatures), Rat(4, 10))

AsthmaScore(a) ==
    LET s1 == Bump(Zero, Gt(a.duration, Rat(1, 1)), Rat(3, 10))
        s2 == Bump(s1, Lt(a.spectralCentroid, Rat(1500, 1)), Rat(3, 10))
    IN  Bump(s2, DetectWheezing(a.mfccFeatures), Rat(4, 10))

\* Mutant: the rms rule of Bronchitis with the threshold of Pneumonia (0.12).
BronchitisScoreRmsOfPneumonia(a) ==
    LET s1 == Bump(Zero, Gt(a.rms, Rat(12, 100)), Rat(3, 10))
        s2 == Bump(s1, Gt(a.duration, Rat(8, 10)), Rat(2, 10))
    IN  Bump(s2, Lt(a.spectralCentroid, Rat(2000, 1)), Rat(3, 10))

BronchitisScore(a) ==
    LET s1 == Bump(Zero, Gt(a.rms, Rat(15, 100)), Rat(3, 10))
        s2 == Bump(s1, Gt(a.duration, Rat(8, 10)), Rat(2, 10))
    IN  Bump(s2, Lt(a.spectralCentroid, Rat(2000, 1)), Rat(3, 10))

\* Mutant: the duration rule of Pneumonia reversed (duration > 1.5).
PneumoniaScoreLongDuration(a) ==
    LET s1 == Bump(Zero, Gt(a.rms, Rat(12, 100)), Rat(2, 10))
        s2 == Bump(s1, Gt(a.duration, Rat(15, 10)), Rat(2, 10))
    IN  Bump(s2, Lt(a.zeroCrossingRate, Rat(8, 100)), Rat(3, 10))

PneumoniaScore(a) ==
    LET s1 == Bump(Zero, Gt(a.rms, Rat(12, 100)), Rat(2, 10))
        s2 == Bump(s1, Lt(a.duration, Rat(15, 10)), Rat(2, 10))
    IN  Bump(s2, Lt(a.zeroCrossingRate, Rat(8, 100)), Rat(3, 10))

\* Mutant: the upper threshold taken inclusively (score >= 0.6 is "high").
ConfidenceHighAtThreshold(score) ==
    IF ~Lt(score, Rat(6, 10)) /\ ~IsNaN(score) THEN "high"
    ELSE IF Gt(score, Rat(3, 10)) THEN "medium" ELSE "low"

\* Mutant: the lower threshold taken inclusively (score >= 0.3 is "medium").
ConfidenceMediumAtThreshold(score) ==
    IF Gt(score, Rat(6, 10)) THEN "high"
    ELSE IF ~Lt(score, Rat(3, 10)) /\ ~IsNaN(score) THEN "medium" ELSE "low"

\* score > 0.6 ? "high" : score > 0.3 ? "medium" : "low"
Confidence(score) ==
    IF Gt(score, Rat(6, 10)) THEN "high"
    ELSE IF Gt(score, Rat(3, 10)) THEN "medium" ELSE "low"

\* Mutant: the cap left out.
Uncapped(score) == score

\* Math.min(score, 0.95)
Capped(score) == MathMin(score, Rat(95, 100))

\* One conditions.push({name, probability, confidence}).
Condition(name, score) ==
    [name |-> name, probability |-> Capped(score), confidence |-> Confidence(score)]

\* The conditions list as pushed, before the sort.
Pushed(a) ==
    << Condition("COVID-19", CovidScore(a)),
       Condition("Asthma", AsthmaScore(a)),
       Condition("Bronchitis", BronchitisScore(a)),
       Condition("Pneumonia", PneumoniaScore(a)) >>

\* Mutant: the comparator reversed (a.probability - b.probability).
InsertAscending(sorted, c) ==
    LET k == Cardinality({i \in 1..Len(sorted) : ~Gt(sorted[i].probability, c.probability)})
    IN  SubSeq(sorted, 1, k) \o <<c>> \o SubSeq(sorted, k + 1, Len(sorted))

\* Mutant: an unstable sort, an entry going ahead of the entries it ties with.
InsertBeforeTies(sorted, c) ==
    LET k == Cardinality({i \in 1..Len(sorted) : Gt(sorted[i].probability, c.probability)})
    IN  SubSeq(sorted, 1, k) \o <<c>> \o SubSeq(sorted, k + 1, Len(sorted))

\* Array.prototype.sort with (a, b) => b.probability - a.probability: a
\* stable sort, so an entry goes behind every entry that does not sort
\* after it.
InsertSorted(sorted, c) ==
    LET k == Cardinality({i \in 1..Len(sorted) : ~Lt(sorted[i].probability, c.probability)})
    IN  SubSeq(sorted, 1, k) \o <<c>> \o SubSeq(sorted, k + 1, Len(sorted))

RECURSIVE SortConditions(_)
SortConditions(cs) ==
    IF cs = <<>> THEN <<>>
    ELSE InsertSorted(SortConditions(SubSeq(cs, 1, Len(cs) - 1)), cs[Len(cs)])

\* conditions.reduce((sum, c) => sum + c.probability, 0)
RECURSIVE Total(_)
Total(cs) ==
    IF cs = <<>> THEN Zero
    ELSE Add(Total(SubSeq(cs, 1, Len(cs) - 1)), cs[Len(cs)].probability)

\* Mutant: the share left a fraction of 1 (the "* 100" dropped).
NormalizeToOne(cs) ==
    LET total == Total(cs)
    IN  IF Gt(total, Zero)
        THEN [i \in 1..Len(cs) |->
                 [cs[i] EXCEPT !.probability = Div(cs[i].probability, total)]]
        ELSE cs

\* if (total > 0) c.probability = (c.probability / total) * 100
Normalize(cs) ==
    LET total == Total(cs)
    IN  IF Gt(total, Zero)
        THEN [i \in 1..Len(cs) |->
                 [cs[i] EXCEPT !.probability = Mul(Div(cs[i].probability, total), Rat(100, 1))]]
        ELSE cs

\* conditions[0]?.name || "Unknown"
DominantCondition(cs) == IF Len(cs) > 0 THEN cs[1].name ELSE "Unknown"

\* conditions[0]?.confidence || "low"
OverallConfidence(cs) == IF Len(cs) > 0 THEN cs[1].confidence ELSE "low"

\* RuleBasedCoughModel.predict
Predict(a, t) ==
    LET conditions == Normalize(SortConditions(Pushed(a)))
    IN  [conditions |-> conditions,
         dominantCondition |-> DominantCondition(conditions),
         overallConfidence |-> OverallConfidence(conditions),
         analysisTimestamp |-> t]

\* ------------------------------------------------ audio-processor.ts

windowSize == 2048

hopSize == 512

\* The capture's sample rate (the getUserMedia constraint).
SampleRate == 44100

\* The decoded buffers of the model are silent: `length` samples, all 0.0.
\* AudioBuffer.duration is length / sampleRate.
AudioBuffer(n) == [length |-> n, sampleRate |-> SampleRate, duration |-> Rat(n, SampleRate)]

\* The loop of calculateRMS over the samples: a sum of `length` squares of 0.
SumOfSquares(buf) == Zero

\* Math.sqrt(sum / signal.length)
CalculateRMS(buf) == MathSqrt(Div(SumOfSquares(buf), Rat(buf.length, 1)))

\* No two adjacent samples of a silent buffer differ in sign.
Crossings(buf) == 0

\* crossings / signal.length
CalculateZeroCrossingRate(buf) == Div(Rat(Crossings(buf), 1), Rat(buf.length, 1))

\* Every bin of the transform of a silent buffer has magnitude 0, so the
\* two sums of calculateSpectralCentroid stay 0.
MagnitudeSum(buf) == Zero

WeightedSum(buf) == Zero

\* Mutant: the quotient without its guard.
CalculateSpectralCentroidUnguarded(buf) == Div(WeightedSum(buf), MagnitudeSum(buf))

\* magnitudeSum > 0 ? weightedSum / magnitudeSum : 0
CalculateSpectralCentroid(buf) ==
    IF Gt(MagnitudeSum(buf), Zero) THEN Div(WeightedSum(buf), MagnitudeSum(buf)) ELSE Zero

\* Math.floor((preEmphasized.length - windowSize) / hopSize) + 1
NumFrames(n) == ((n - windowSize) \div hopSize) + 1

\* new Float32Array(len) throws a RangeError for a negative length.
Float32ArrayThrows(len) == len < 0

\* computeMFCC of a silent frame: coefficient 0 is M * log(1e-10), and
\* coefficients 2 and 3 are sums of cosines over whole periods, 0 up to a
\* rounding residue below 1e-11.
SilentFrame == [c2 |-> Zero, c3 |-> Zero]

\* computeFFT of a signal of N samples: new Float32Array(N * 2).
ComputeFFTLength(N) == N * 2

\* computeMFCC: new Float32Array(fft.length / 2), the bins of the power
\* spectrum, over all of which the cepstral projection sums.
PowerSpectrumLength(fftLength) == fftLength \div 2

\* preEmphasized.slice(start, start + windowSize): the end is clamped to the
\* length of the signal.
SliceEnd(start, n) == IF start + windowSize < n THEN start + windowSize ELSE n

\* Mutant: the coefficients of a frame written from index `frame` on.
FeatureIndexUnstrided(frame, i) == frame + i

\* mfccFeatures[frame * 13 + i]
FeatureIndex(frame, i) == frame * NumCoefficients + i

\* One turn of the frame loop of extractMFCCFeatures on a signal of n
\* samples: the slice taken, the lengths of the transform and of the power
\* spectrum of computeMFCC, and the entries of the feature set written.
FrameTurn(frame, n) ==
    LET start == frame * hopSize
        frameLength == SliceEnd(start, n) - start
        fftLength == ComputeFFTLength(frameLength)
    IN  [start |-> start,
         end |-> SliceEnd(start, n),
         fftLength |-> fftLength,
         powerSpectrumLength |-> PowerSpectrumLength(fftLength),
         written |-> [i \in 1..NumCoefficients |-> FeatureIndex(frame, i - 1)]]

\* extractMFCCFeatures: the allocation, then one frame vector per frame.
ExtractMFCCFeatures(buf) ==
    LET numFrames == NumFrames(buf.length)
    IN  IF Float32ArrayThrows(numFrames * NumCoefficients)
        THEN [thrown |-> "RangeError", numFrames |-> numFrames, allocated |-> 0,
              turns |-> <<>>, features |-> <<>>]
        ELSE [thrown |-> "none", numFrames |-> numFrames,
              allocated |-> numFrames * NumCoefficients,
              turns |-> [f \in 1..numFrames |-> FrameTurn(f - 1, buf.length)],
              features |-> [f \in 1..numFrames |-> SilentFrame]]

\* -------------------------------------------------------------------- state

VARIABLES
    now,             \* Date.now()
    constructed,     \* a CoughClassifier has been constructed
    isLoaded,        \* its field isLoaded
    model,           \* its field model: "null" or "RuleBasedCoughModel"
    second,          \* a second CoughClassifier: [constructed, isLoaded, model]
    audioBuffer,     \* <<>> or <<the decoded buffer>>
    extracted,       \* <<>> or <<the outcome of the last extractMFCCFeatures call>>
    computed,        \* the steps analyzeCoughCharacteristics ran, in order
    stats,           \* <<>> or <<the statistics it computed>>
    analysis,        \* <<>> or <<the Analysis Record it returned>>
    analyzeError,    \* "none" or the error it threw
    request,         \* <<>> or <<the record passed to classifyCough>>
    pushed,          \* predict's conditions list before the sort
    classification,  \* <<>> or <<the Classification Result>>
    classifyError,   \* "none" or the error classifyCough threw
    batchState,      \* batchClassify: "idle", "running", "returned", "rejected"
    batchOn,         \* the classifier batchClassify was called on: 1 or 2
    batchInput,      \* the records as they were passed to batchClassify
    batch,           \* the same records as they are now
    results,         \* batchClassify's local results list
    batchError,      \* "none" or the error batchClassify rejected with
    probe            \* <<>> or <<a function applied on its own, with its result>>

VARIABLES
    currentStep,     \* the page's step: "landing", "capture", "analysis", "results"
    isAnalyzing,     \* the page's isAnalyzing
    currentResult,   \* <<>> (null) or <<the result shown>>
    history,         \* the page's history, newest first
    hasConsented,    \* the page's hasConsented
    startCall,       \* what the last startAnalysis call did: "none", "returned", "started"
    capture          \* the audio capture component while it is mounted

pageVars == <<currentStep, isAnalyzing, currentResult, history, hasConsented, startCall,
              capture>>

VARIABLES
    videoRecording,  \* VideoCapture's prop isRecording
    videoStarts,     \* startVideoCapture calls so far; call k builds stream k
    videoPending,    \* the getUserMedia requests not yet settled
    streamRef,       \* streamRef.current: 0 (null) or a stream
    intervalRef,     \* intervalRef.current: 0 (undefined) or a timer
    liveStreams,     \* the streams whose tracks are live
    blinkTimers,     \* the running blink timers, each with its local `blinks`
    faceDetected,    \* VideoCapture's faceDetected
    blinkCount       \* VideoCapture's blinkCount

videoVars == <<videoRecording, videoStarts, videoPending, streamRef, intervalRef,
               liveStreams, blinkTimers, faceDetected, blinkCount>>

VARIABLES
    isLoading,       \* DatasetUploader's isLoading
    progress,        \* its progress
    status,          \* its status: "idle", "loading", "success", "error"
    loadsStarted,    \* load handlers run so far
    inFlight,        \* <<>> or <<the handler awaiting loadDataset>>
    progressTimers,  \* the running progress timers: [id, step]
    lastFinished     \* <<>> or <<the handler that finished last, and how>>

uploaderVars == <<isLoading, progress, status, loadsStarted, inFlight, progressTimers,
                  lastFinished>>

VARIABLES
    datasets,        \* DatasetManager's map, as its entries in insertion order
    loadsDone,       \* loadDataset calls so far
    loadCall,        \* <<>> or <<the last loadDataset call and its outcome>>
    split            \* <<>> or <<the last splitDataset call and its result>>

datasetVars == <<datasets, loadsDone, loadCall, split>>

appVars == <<pageVars, videoVars, uploaderVars, datasetVars>>

\* The audio capture component is not rendered.
Unmounted == [mounted |-> FALSE, request |-> "none", recorder |-> "none",
              tracks |-> "none", stage |-> "none"]

\* The page as its useState initialisers leave it.
PageIdle ==
    /\ currentStep = "landing"
    /\ isAnalyzing = FALSE
    /\ currentResult = <<>>
    /\ history = <<>>
    /\ hasConsented = FALSE
    /\ startCall = "none"
    /\ capture = Unmounted

\* VideoCapture mounted with isRecording false: the effect's stopVideoCapture
\* found nothing to stop.
VideoIdle ==
    /\ videoRecording = FALSE
    /\ videoStarts = 0
    /\ videoPending = {}
    /\ streamRef = 0
    /\ intervalRef = 0
    /\ liveStreams = {}
    /\ blinkTimers = {}
    /\ faceDetected = FALSE
    /\ blinkCount = 0

\* DatasetUploader as its useState initialisers leave it.
UploaderIdle ==
    /\ isLoading = FALSE
    /\ progress = 0
    /\ status = "idle"
    /\ loadsStarted = 0
    /\ inFlight = <<>>
    /\ progressTimers = {}
    /\ lastFinished = <<>>

\* The dataset initializeDefaultDatasets stores.
SampleDataset == [id |-> <<"sample-cough-dataset">>, name |-> "Sample Cough Dataset",
                  samples |-> <<>>, createdAt |-> 0]

\* new DatasetManager()
DatasetManagerConstructed ==
    /\ datasets = <<SampleDataset>>
    /\ loadsDone = 0
    /\ loadCall = <<>>
    /\ split = <<>>

AppIdle ==
    /\ PageIdle
    /\ VideoIdle
    /\ UploaderIdle
    /\ DatasetManagerConstructed

pipelineVars == <<audioBuffer, extracted, computed, stats, analysis, analyzeError>>

classifierVars == <<request, pushed, classification, classifyError>>

instanceVars == <<constructed, isLoaded, model, second>>

batchVars == <<batchState, batchOn, batchInput, batch, results, batchError>>

coreVars == <<now, instanceVars, pipelineVars, classifierVars, batchVars, probe>>

vars == <<now, constructed, isLoaded, model, second, audioBuffer, extracted, computed,
          stats, analysis, analyzeError, request, pushed, classification, classifyError,
          batchState, batchOn, batchInput, batch, results, batchError, probe, appVars>>

\* No analysis, classification or batch under way.
Idle ==
    /\ now = 0
    /\ audioBuffer = <<>>
    /\ extracted = <<>>
    /\ computed = <<>>
    /\ stats = <<>>
    /\ analysis = <<>>
    /\ analyzeError = "none"
    /\ request = <<>>
    /\ pushed = <<>>
    /\ classification = <<>>
    /\ classifyError = "none"
    /\ batchState = "idle"
    /\ batchOn = 1
    /\ batchInput = <<>>
    /\ batch = <<>>
    /\ results = <<>>
    /\ batchError = "none"
    /\ probe = <<>>
    /\ AppIdle

\* The fields of a CoughClassifier as its initialisers leave them.
FieldInitialisers == [model |-> "null", isLoaded |-> FALSE]

\* Mutant: loadModel suspended at an await ahead of its assignments.
LoadModelSuspended(self) == self

\* loadModel: an async function whose body has no await, so the call runs
\* the body to its end.
LoadModel(self) == [self EXCEPT !.model = "RuleBasedCoughModel", !.isLoaded = TRUE]

\* new CoughClassifier(): the field initialisers, then this.loadModel().
Constructor == LoadModel(FieldInitialisers)

\* The state after `new AudioProcessor()` and `new CoughClassifier()`.
Init ==
    /\ Idle
    /\ constructed = TRUE
    /\ isLoaded = Constructor.isLoaded
    /\ model = Constructor.model
    /\ second = [constructed |-> FALSE, isLoaded |-> FALSE, model |-> "null"]

\* The wall clock advances.
Tick ==
    /\ now < MaxClock
    /\ now' = now + 1
    /\ UNCHANGED appVars
    /\ UNCHANGED <<instanceVars, pipelineVars, classifierVars, batchVars, probe>>

\* Sample counts of the decoded buffers: a sweep from the empty buffer past
\* the first frames, and one second of audio.
SampleCounts == (0..MaxSamples) \cup {SampleRate}

\* A recording stops and analyzeRecordedAudio is entered anew: the buffer,
\* the record and the classification of the run before are gone.
AnalyzeRecordedAudio ==
    /\ audioBuffer # <<>>
    /\ audioBuffer' = <<>>
    /\ extracted' = <<>>
    /\ computed' = <<>>
    /\ stats' = <<>>
    /\ analysis' = <<>>
    /\ analyzeError' = "none"
    /\ request' = <<>>
    /\ pushed' = <<>>
    /\ classification' = <<>>
    /\ classifyError' = "none"
    /\ UNCHANGED appVars
    /\ UNCHANGED <<now, instanceVars, batchVars, probe>>

\* processAudioBlob: decodeAudioData resolves with a buffer of n samples.
ProcessAudioBlob(n) ==
    /\ audioBuffer = <<>>
    /\ audioBuffer' = <<AudioBuffer(n)>>
    /\ UNCHANGED appVars
    /\ UNCHANGED <<now, instanceVars, extracted, computed, stats, analysis, analyzeError,
                   classifierVars, batchVars, probe>>

\* extractMFCCFeatures(audioBuffer), called on its own.
ExtractFeatures ==
    /\ audioBuffer # <<>>
    /\ extracted = <<>>
    /\ extracted' = <<ExtractMFCCFeatures(audioBuffer[1])>>
    /\ UNCHANGED appVars
    /\ UNCHANGED <<now, instanceVars, audioBuffer, computed, stats, analysis, analyzeError,
                   classifierVars, batchVars, probe>>

\* analyzeCoughCharacteristics(audioBuffer): the three statistics, then the
\* feature set, then the record; a throw of extractMFCCFeatures ends the call.
AnalyzeCoughCharacteristics ==
    /\ audioBuffer # <<>>
    /\ computed = <<>>
    /\ LET buf == audioBuffer[1]
           rms == CalculateRMS(buf)
           zcr == CalculateZeroCrossingRate(buf)
           spectralCentroid == CalculateSpectralCentroid(buf)
           mfcc == ExtractMFCCFeatures(buf)
       IN  /\ computed' = <<"duration", "rms", "zeroCrossingRate", "spectralCentroid",
                            "mfccFeatures">>
           /\ stats' = << [rms |-> rms,
                           zeroCrossingRate |-> zcr,
                           spectralCentroid |-> spectralCentroid] >>
           /\ IF mfcc.thrown # "none"
              THEN /\ analyzeError' = mfcc.thrown
                   /\ analysis' = <<>>
              ELSE /\ analyzeError' = "none"
                   /\ analysis' = << [duration |-> buf.duration,
                                      rms |-> rms,
                                      zeroCrossingRate |-> zcr,
                                      spectralCentroid |-> spectralCentroid,
                                      mfccFeatures |-> mfcc.features,
                                      timestamp |-> now] >>
    /\ UNCHANGED appVars
    /\ UNCHANGED <<now, instanceVars, audioBuffer, extracted, classifierVars, batchVars,
                   probe>>

\* Mutant: the guard of classifyCough with && in place of ||.
NotReadyBoth(loaded, mdl) == ~loaded /\ mdl = "null"

\* !this.isLoaded || !this.model
NotReady(loaded, mdl) == ~loaded \/ mdl = "null"

\* An object without a feature set: predict's detectWheezing reads
\* mfccFeatures.length of undefined.
Malformed(a) == "mfccFeatures" \notin DOMAIN a

\* Mutant: predict hands out the result of the call before once more.
ClassifyOutcomeMemoised(loaded, mdl, a, t) ==
    IF NotReady(loaded, mdl)
    THEN [error |-> "Model not loaded", pushed |-> <<>>, record |-> a,
          classification |-> <<>>]
    ELSE IF Malformed(a)
    THEN [error |-> "TypeError", pushed |-> <<>>, record |-> a, classification |-> <<>>]
    ELSE IF classification # <<>>
    THEN [error |-> "none", pushed |-> pushed, record |-> a,
          classification |-> <<[classification[1] EXCEPT !.analysisTimestamp = t]>>]
    ELSE [error |-> "none", pushed |-> Pushed(a), record |-> a,
          classification |-> <<Predict(a, t)>>]

\* classifyCough(a) at clock reading t on a classifier with the fields
\* loaded and mdl: the error thrown, predict's list as pushed, the result,
\* and the record as the call leaves it (predict reads its fields and
\* writes none).
ClassifyOutcome(loaded, mdl, a, t) ==
    IF NotReady(loaded, mdl)
    THEN [error |-> "Model not loaded", pushed |-> <<>>, record |-> a,
          classification |-> <<>>]
    ELSE IF Malformed(a)
    THEN [error |-> "TypeError", pushed |-> <<>>, record |-> a, classification |-> <<>>]
    ELSE [error |-> "none", pushed |-> Pushed(a), record |-> a,
          classification |-> <<Predict(a, t)>>]

\* CoughClassifier.classifyCough(a)
ClassifyCough(a) ==
    /\ \E o \in {ClassifyOutcome(isLoaded, model, a, now)} :
           /\ request' = <<o.record>>
           /\ classifyError' = o.error
           /\ pushed' = o.pushed
           /\ classification' = o.classification
    /\ UNCHANGED appVars
    /\ UNCHANGED <<now, instanceVars, pipelineVars, batchVars, probe>>

\* analyzeRecordedAudio's next step: the record it got is classified.
ClassifyAnalysis ==
    /\ analysis # <<>>
    /\ request = <<>>
    /\ ClassifyCough(analysis[1])

Next ==
    \/ Tick
    \/ AnalyzeRecordedAudio
    \/ \E n \in SampleCounts : ProcessAudioBlob(n)
    \/ ExtractFeatures
    \/ AnalyzeCoughCharacteristics
    \/ ClassifyAnalysis

\* Recordings decoded, analysed and classified end to end.
Spec == Init /\ [][Next]_vars

\* ----------------------------- the classifier over Analysis Records at large

\* The fields of the records: every threshold of the rules, a value on each
\* side of it, and NaN (a `number` like any other).
Durations ==
    {NaN, Rat(3, 10), Rat(5, 10), Rat(8, 10), Rat(1, 1), Rat(12, 10), Rat(15, 10),
     Rat(2, 1), Rat(25, 10)}

RmsValues == {NaN, Zero, Rat(10, 100), Rat(12, 100), Rat(15, 100), Rat(20, 100)}

ZeroCrossingRates == {NaN, Zero, Rat(8, 100), Rat(10, 100), Rat(20, 100)}

SpectralCentroids == {Zero, Rat(1500, 1), Rat(2000, 1), Rat(3000, 1)}

\* Frames by their coefficients 2 and 3: one the wheeze pattern matches, and
\* one at each threshold of the pattern.
Frames ==
    { [c2 |-> Rat(6, 10), c3 |-> Rat(-4, 10)],
      [c2 |-> Rat(5, 10), c3 |-> Rat(-4, 10)],
      [c2 |-> Rat(6, 10), c3 |-> Rat(-3, 10)] }

FeatureSets == UNION {[1..k -> Frames] : k \in 0..MaxFrames}

\* The caller has taken the outcome of its classifyCough call.
TakeClassification ==
    /\ request # <<>>
    /\ request' = <<>>
    /\ pushed' = <<>>
    /\ classification' = <<>>
    /\ classifyError' = "none"
    /\ UNCHANGED appVars
    /\ UNCHANGED <<now, instanceVars, pipelineVars, batchVars, probe>>

\* classifyCough called with any record of the bounded domain.
ClassifyRecord ==
    /\ request = <<>>
    /\ \E d \in Durations, r \in RmsValues, z \in ZeroCrossingRates,
          c \in SpectralCentroids, m \in FeatureSets :
        ClassifyCough([duration |-> d, rms |-> r, zeroCrossingRate |-> z,
                       spectralCentroid |-> c, mfccFeatures |-> m, timestamp |-> 0])

NextClassifier ==
    \/ Tick
    \/ ClassifyRecord
    \/ TakeClassification

SpecClassifier == Init /\ [][NextClassifier]_vars

\* --------------------------------- construction, single calls and batches

\* Before any `new CoughClassifier()`.
InitConstruction ==
    /\ Idle
    /\ constructed = FALSE
    /\ isLoaded = FALSE
    /\ model = "null"
    /\ second = [constructed |-> FALSE, isLoaded |-> FALSE, model |-> "null"]

\* new CoughClassifier(), the first.
NewCoughClassifier ==
    /\ ~constructed
    /\ constructed' = TRUE
    /\ isLoaded' = Constructor.isLoaded
    /\ model' = Constructor.model
    /\ UNCHANGED appVars
    /\ UNCHANGED <<now, second, pipelineVars, classifierVars, batchVars, probe>>

\* new CoughClassifier() once more: a second instance.
NewSecondClassifier ==
    /\ ~second.constructed
    /\ second' = [constructed |-> TRUE, isLoaded |-> Constructor.isLoaded,
                  model |-> Constructor.model]
    /\ UNCHANGED appVars
    /\ UNCHANGED <<now, constructed, isLoaded, model, pipelineVars, classifierVars,
                   batchVars, probe>>

ClassifierConstructed(k) == IF k = 1 THEN constructed ELSE second.constructed

ClassifierFields(k) ==
    IF k = 1 THEN [isLoaded |-> isLoaded, model |-> model]
    ELSE [isLoaded |-> second.isLoaded, model |-> second.model]

\* A record of a quiet cough of one second.
QuietRecord ==
    [duration |-> Rat(1, 1), rms |-> Zero, zeroCrossingRate |-> Zero,
     spectralCentroid |-> Zero, mfccFeatures |-> <<>>, timestamp |-> 0]

\* A record of a loud, bright cough whose one frame matches the wheeze pattern.
WheezyRecord ==
    [duration |-> Rat(12, 10), rms |-> Rat(20, 100), zeroCrossingRate |-> Rat(20, 100),
     spectralCentroid |-> Rat(3000, 1),
     mfccFeatures |-> << [c2 |-> Rat(6, 10), c3 |-> Rat(-4, 10)] >>, timestamp |-> 0]

\* A malformed record: the empty object {}.
EmptyObject == [x \in {} |-> 0]

BatchRecords == {QuietRecord, WheezyRecord, EmptyObject}

Batches == UNION {[1..n -> BatchRecords] : n \in 0..MaxBatch}

\* Mutant: the result put at the front of the list (unshift).
UnshiftResult(rs, c) == <<c>> \o rs

\* results.push(classification)
PushResult(rs, c) == Append(rs, c)

\* The end of a turn of batchClassify's loop whose classifyCough call had the
\* outcome o: a throw is not caught, it ends the loop and rejects the call;
\* a result is pushed, and the call returns after the last one.
TurnOutcome(as, rs, o) ==
    LET records == [j \in 1..Len(as) |-> IF j = Len(rs) + 1 THEN o.record ELSE as[j]]
    IN  IF o.error # "none"
        THEN [state |-> "rejected", error |-> o.error, results |-> rs, batch |-> records]
        ELSE [state |-> IF Len(rs) + 1 = Len(as) THEN "returned" ELSE "running",
              error |-> "none", results |-> PushResult(rs, o.classification[1]),
              batch |-> records]

\* One turn of batchClassify's loop on classifier k at clock reading t:
\* classifyCough on the next record, then the push of its result.
BatchTurn(k, as, rs, t) ==
    TurnOutcome(as, rs,
                ClassifyOutcome(ClassifierFields(k).isLoaded, ClassifierFields(k).model,
                                as[Len(rs) + 1], t))

\* batchClassify(as) called on classifier k: up to its first await it runs
\* the first turn of the loop, or returns the empty list for no records.
BatchClassify(k, as) ==
    /\ batchState = "idle"
    /\ ClassifierConstructed(k)
    /\ batchOn' = k
    /\ batchInput' = as
    /\ \E turn \in {IF as = <<>>
                    THEN [state |-> "returned", error |-> "none", results |-> <<>>,
                          batch |-> as]
                    ELSE BatchTurn(k, as, <<>>, now)} :
           /\ batchState' = turn.state
           /\ batchError' = turn.error
           /\ results' = turn.results
           /\ batch' = turn.batch
    /\ UNCHANGED appVars
    /\ UNCHANGED <<now, instanceVars, pipelineVars, classifierVars, probe>>

\* batchClassify resumes after an await: the next turn of its loop.
BatchResume ==
    /\ batchState = "running"
    /\ \E turn \in {BatchTurn(batchOn, batch, results, now)} :
           /\ batchState' = turn.state
           /\ batchError' = turn.error
           /\ results' = turn.results
           /\ batch' = turn.batch
    /\ UNCHANGED appVars
    /\ UNCHANGED <<now, instanceVars, pipelineVars, classifierVars, batchOn, batchInput,
                   probe>>

\* The caller has taken the outcome of its batchClassify call.
TakeBatch ==
    /\ batchState \in {"returned", "rejected"}
    /\ batchState' = "idle"
    /\ batchOn' = 1
    /\ batchInput' = <<>>
    /\ batch' = <<>>
    /\ results' = <<>>
    /\ batchError' = "none"
    /\ UNCHANGED appVars
    /\ UNCHANGED <<now, instanceVars, pipelineVars, classifierVars, probe>>

\* classifyCough called on the first classifier with a record of the batches.
ClassifyOne ==
    /\ constructed
    /\ request = <<>>
    /\ \E a \in BatchRecords : ClassifyCough(a)

NextCalls ==
    \/ Tick
    \/ ClassifyOne
    \/ TakeClassification
    \/ \E k \in 1..2, as \in Batches : BatchClassify(k, as)
    \/ BatchResume
    \/ TakeBatch

NextBatch ==
    \/ NewCoughClassifier
    \/ NewSecondClassifier
    \/ NextCalls

\* Classifiers constructed and called, singly and in batches.
SpecBatch == InitConstruction /\ [][NextBatch]_vars

\* A classifier whose fields hold any values of their declared types: the
\* guard of classifyCough as a function of the fields.
InitUnready ==
    /\ Idle
    /\ constructed = TRUE
    /\ isLoaded \in BOOLEAN
    /\ model \in {"null", "RuleBasedCoughModel"}
    /\ second = [constructed |-> FALSE, isLoaded |-> FALSE, model |-> "null"]

SpecUnready == InitUnready /\ [][NextCalls]_vars

\* ------------------------------------------ functions applied on their own

\* Samples -1.0, 0.0 and 1.0.
SampleValues == {-1, 0, 1}

Signals == UNION {[1..n -> SampleValues] : n \in 0..MaxSignalLength}

\* The loop of calculateZeroCrossingRate over an explicit signal.
RECURSIVE CountCrossings(_, _)
CountCrossings(signal, i) ==
    IF i > Len(signal) THEN 0
    ELSE (IF (signal[i] >= 0) # (signal[i - 1] >= 0) THEN 1 ELSE 0)
             + CountCrossings(signal, i + 1)

\* crossings / signal.length, of an explicit signal
ZeroCrossingRate(signal) == Div(Rat(CountCrossings(signal, 2), 1), Rat(Len(signal), 1))

\* Feature sets of up to MaxWheezeFrames frames.
WheezeFeatureSets == UNION {[1..k -> Frames] : k \in 0..MaxWheezeFrames}

\* calculateZeroCrossingRate applied to an explicit signal.
CalculateZeroCrossingRateCall ==
    /\ probe = <<>>
    /\ \E x \in Signals :
          probe' = << [call |-> "calculateZeroCrossingRate", signal |-> x,
                       crossings |-> CountCrossings(x, 2),
                       zeroCrossingRate |-> ZeroCrossingRate(x)] >>
    /\ UNCHANGED appVars
    /\ UNCHANGED <<now, instanceVars, pipelineVars, classifierVars, batchVars>>

\* detectWheezing applied to a feature set.
DetectWheezingCall ==
    /\ probe = <<>>
    /\ \E m \in WheezeFeatureSets :
          probe' = << [call |-> "detectWheezing", mfccFeatures |-> m,
                       wheezing |-> DetectWheezing(m)] >>
    /\ UNCHANGED appVars
    /\ UNCHANGED <<now, instanceVars, pipelineVars, classifierVars, batchVars>>

\* The result has been taken.
TakeProbe ==
    /\ probe # <<>>
    /\ probe' = <<>>
    /\ UNCHANGED appVars
    /\ UNCHANGED <<now, instanceVars, pipelineVars, classifierVars, batchVars>>

NextFunctions ==
    \/ CalculateZeroCrossingRateCall
    \/ DetectWheezingCall
    \/ TakeProbe

SpecFunctions == Init /\ [][NextFunctions]_vars


\* ------------------------------------------------------- the page: a test run

\* Test runs kept in the history.
MaxHistory == 3

\* The dominant conditions a classification may carry.
DominantConditions == {"COVID-19", "Asthma", "Healthy"}

\* Mutant: startAnalysis without its consent test.
NoConsentGuard(consented) == FALSE

\* startAnalysis returns at once: `if (!hasConsented) return`.
ConsentGuard(consented) == ~consented

\* The capture view is rendered: EnhancedAudioCapture mounts with isRecording
\* true, and its effect calls startAudioCapture, which awaits getUserMedia.
Mounted == [mounted |-> TRUE, request |-> "pending", recorder |-> "none",
            tracks |-> "none", stage |-> "none"]

\* PrivacyNotice, rendered in the landing view only, calls setHasConsented.
SetHasConsented ==
    /\ currentStep = "landing"
    /\ \E v \in BOOLEAN : hasConsented' = v
    /\ UNCHANGED <<currentStep, isAnalyzing, currentResult, history, startCall, capture>>
    /\ UNCHANGED <<coreVars, videoVars, uploaderVars, datasetVars>>

\* startAnalysis, the handler of the landing view's start button.
StartAnalysis ==
    /\ currentStep = "landing"
    /\ Len(history) < MaxHistory
    /\ IF ConsentGuard(hasConsented)
          THEN /\ startCall' = "returned"
               /\ UNCHANGED <<currentStep, isAnalyzing, capture>>
          ELSE /\ startCall' = "started"
               /\ currentStep' = "capture"
               /\ isAnalyzing' = TRUE
               /\ capture' = Mounted
    /\ UNCHANGED <<currentResult, history, hasConsented>>
    /\ UNCHANGED <<coreVars, videoVars, uploaderVars, datasetVars>>

\* resetTest: the Cancel button of the capture view, disabled while
\* isAnalyzing, and the results view's onNewTest.  Leaving the capture view
\* unmounts the capture component.
ResetTest ==
    /\ currentStep # "landing"
    /\ currentStep = "capture" => ~isAnalyzing
    /\ currentStep' = "landing"
    /\ currentResult' = <<>>
    /\ isAnalyzing' = FALSE
    /\ capture' = Unmounted
    /\ UNCHANGED <<history, hasConsented, startCall>>
    /\ UNCHANGED <<coreVars, videoVars, uploaderVars, datasetVars>>

\* getUserMedia resolves: startAudioCapture keeps the stream, builds the
\* MediaRecorder and starts it.
GetUserMediaResolves ==
    /\ capture.mounted
    /\ capture.request = "pending"
    /\ capture' = [capture EXCEPT !.request = "granted", !.tracks = "live",
                                   !.recorder = "recording"]
    /\ UNCHANGED <<currentStep, isAnalyzing, currentResult, history, hasConsented, startCall>>
    /\ UNCHANGED <<coreVars, videoVars, uploaderVars, datasetVars>>

\* getUserMedia rejects: the catch of startAudioCapture sets hasPermission
\* to false and nothing else.
GetUserMediaRejects ==
    /\ capture.mounted
    /\ capture.request = "pending"
    /\ capture' = [capture EXCEPT !.request = "rejected"]
    /\ UNCHANGED <<currentStep, isAnalyzing, currentResult, history, hasConsented, startCall>>
    /\ UNCHANGED <<coreVars, videoVars, uploaderVars, datasetVars>>

\* The microphone's track ends on its own (device removed, permission
\* withdrawn): the MediaRecorder built on the stream stops and queues its
\* stop event.  The component itself calls mediaRecorder.stop() only in
\* stopAudioCapture, which runs when isRecording turns false or on unmount.
TrackEnds ==
    /\ capture.mounted
    /\ capture.recorder = "recording"
    /\ capture' = [capture EXCEPT !.tracks = "ended", !.recorder = "inactive",
                                   !.stage = "stopEvent"]
    /\ UNCHANGED <<currentStep, isAnalyzing, currentResult, history, hasConsented, startCall>>
    /\ UNCHANGED <<coreVars, videoVars, uploaderVars, datasetVars>>

\* mediaRecorder.onstop: the blob is kept and analyzeRecordedAudio runs up
\* to its first await.
OnStop ==
    /\ capture.mounted
    /\ capture.stage = "stopEvent"
    /\ capture' = [capture EXCEPT !.stage = "analysing"]
    /\ UNCHANGED <<currentStep, isAnalyzing, currentResult, history, hasConsented, startCall>>
    /\ UNCHANGED <<coreVars, videoVars, uploaderVars, datasetVars>>

\* handleAnalysisComplete: the result is shown and prepended to the history.
\* Of the result only the dominant condition is kept.
HandleAnalysisComplete(dominantCondition) ==
    /\ currentResult' = << [dominantCondition |-> dominantCondition] >>
    /\ history' = << [dominantCondition |-> dominantCondition] >> \o history
    /\ currentStep' = "results"
    /\ isAnalyzing' = FALSE

\* analyzeRecordedAudio runs to onAnalysisComplete; the results view replaces
\* the capture view, which unmounts the capture component.
AnalyzeRecordedAudioCompletes ==
    /\ capture.mounted
    /\ capture.stage = "analysing"
    /\ \E c \in DominantConditions : HandleAnalysisComplete(c)
    /\ capture' = Unmounted
    /\ UNCHANGED <<hasConsented, startCall>>
    /\ UNCHANGED <<coreVars, videoVars, uploaderVars, datasetVars>>

\* processAudioBlob rejects, or analyzeCoughCharacteristics or classifyCough
\* throws: the catch of analyzeRecordedAudio logs the error, its finally
\* resets the component's own isAnalyzing, and the page is not told.
AnalyzeRecordedAudioFails ==
    /\ capture.mounted
    /\ capture.stage = "analysing"
    /\ capture' = [capture EXCEPT !.stage = "failed"]
    /\ UNCHANGED <<currentStep, isAnalyzing, currentResult, history, hasConsented, startCall>>
    /\ UNCHANGED <<coreVars, videoVars, uploaderVars, datasetVars>>

NextPage ==
    \/ SetHasConsented
    \/ StartAnalysis
    \/ ResetTest
    \/ GetUserMediaResolves
    \/ GetUserMediaRejects
    \/ TrackEnds
    \/ OnStop
    \/ AnalyzeRecordedAudioCompletes
    \/ AnalyzeRecordedAudioFails

SpecPage == Init /\ [][NextPage]_vars

\* Every user action that is enabled and every pending callback is
\* eventually taken.  A live track need never end: nothing schedules it.
FairSpecPage ==
    /\ SpecPage
    /\ WF_vars(SetHasConsented)
    /\ WF_vars(StartAnalysis)
    /\ WF_vars(ResetTest)
    /\ WF_vars(GetUserMediaResolves)
    /\ WF_vars(GetUserMediaRejects)
    /\ WF_vars(OnStop)
    /\ WF_vars(AnalyzeRecordedAudioCompletes)
    /\ WF_vars(AnalyzeRecordedAudioFails)


\* ------------------------------------------------------ the camera component

\* Times isRecording turns true.
MaxStarts == 3

\* Blinks a timer counts.
MaxBlinks == 1

\* clearInterval(intervalRef.current), if the ref is set
ClearInterval(timers, ref) == {t \in timers : t.id # ref}

\* streamRef.current.getTracks().forEach(track => track.stop()), if the ref is set
StopTracks(live, ref) == live \ {ref}

\* stopVideoCapture.  Neither ref is reset.
StopVideoCapture ==
    /\ blinkTimers' = ClearInterval(blinkTimers, intervalRef)
    /\ liveStreams' = StopTracks(liveStreams, streamRef)
    /\ faceDetected' = FALSE
    /\ blinkCount' = 0
    /\ UNCHANGED <<streamRef, intervalRef>>

\* isRecording turns true: the effect's cleanup runs stopVideoCapture, then
\* the effect calls startVideoCapture, which awaits getUserMedia.
IsRecordingTurnsTrue ==
    /\ ~videoRecording
    /\ videoStarts < MaxStarts
    /\ videoRecording' = TRUE
    /\ StopVideoCapture
    /\ videoStarts' = videoStarts + 1
    /\ videoPending' = videoPending \cup {videoStarts + 1}
    /\ UNCHANGED <<coreVars, pageVars, uploaderVars, datasetVars>>

\* isRecording turns false: the cleanup and then the effect run
\* stopVideoCapture.
IsRecordingTurnsFalse ==
    /\ videoRecording
    /\ videoRecording' = FALSE
    /\ StopVideoCapture
    /\ UNCHANGED <<videoStarts, videoPending>>
    /\ UNCHANGED <<coreVars, pageVars, uploaderVars, datasetVars>>

\* A getUserMedia request resolves: startVideoCapture keeps the stream in
\* streamRef and starts the blink timer, whatever isRecording is by now.
VideoStreamGranted ==
    /\ \E k \in videoPending :
          /\ videoPending' = videoPending \ {k}
          /\ streamRef' = k
          /\ liveStreams' = liveStreams \cup {k}
          /\ intervalRef' = k
          /\ blinkTimers' = blinkTimers \cup {[id |-> k, blinks |-> 0]}
    /\ faceDetected' = TRUE
    /\ UNCHANGED <<videoRecording, videoStarts, blinkCount>>
    /\ UNCHANGED <<coreVars, pageVars, uploaderVars, datasetVars>>

\* A getUserMedia request rejects: the catch sets hasPermission to false.
VideoStreamRefused ==
    /\ \E k \in videoPending : videoPending' = videoPending \ {k}
    /\ UNCHANGED <<videoRecording, videoStarts, streamRef, intervalRef, liveStreams,
                   blinkTimers, faceDetected, blinkCount>>
    /\ UNCHANGED <<coreVars, pageVars, uploaderVars, datasetVars>>

\* A running blink timer fires and Math.random() > 0.7: blinks++ and
\* setBlinkCount(blinks).
BlinkTimerFires ==
    /\ \E t \in blinkTimers :
          /\ t.blinks < MaxBlinks
          /\ blinkTimers' = (blinkTimers \ {t}) \cup {[t EXCEPT !.blinks = t.blinks + 1]}
          /\ blinkCount' = t.blinks + 1
    /\ UNCHANGED <<videoRecording, videoStarts, videoPending, streamRef, intervalRef,
                   liveStreams, faceDetected>>
    /\ UNCHANGED <<coreVars, pageVars, uploaderVars, datasetVars>>

NextVideo ==
    \/ IsRecordingTurnsTrue
    \/ IsRecordingTurnsFalse
    \/ VideoStreamGranted
    \/ VideoStreamRefused
    \/ BlinkTimerFires

SpecVideo == Init /\ [][NextVideo]_vars


\* ------------------------------------------------------ the dataset uploader

\* Load handlers run.
MaxLoads == 2

\* What the file input hands to handleFileUpload: nothing, files of which
\* none is audio, or files with audio among them.
FileLists == {"none", "noAudio", "audio"}

\* The increment of a handler's progress timer: prev + 10, + 15, + 12.
ProgressStep(handler) ==
    CASE handler = "file" -> 10
      [] handler = "kaggle" -> 15
      [] handler = "url" -> 12

\* Math.min(prev + step, 90)
Advance(prev, step) == IF prev + step < 90 THEN prev + step ELSE 90

\* A handler up to its `await datasetManager.loadDataset(source)`: loading
\* state set, progress timer started.
HandlerStarts(handler) ==
    /\ isLoading' = TRUE
    /\ status' = "loading"
    /\ progress' = 0
    /\ loadsStarted' = loadsStarted + 1
    /\ progressTimers' = progressTimers \cup
                             {[id |-> loadsStarted + 1, step |-> ProgressStep(handler)]}
    /\ inFlight' = << [handler |-> handler, timer |-> loadsStarted + 1] >>
    /\ UNCHANGED lastFinished

\* handleFileUpload; the file input is disabled while isLoading.
HandleFileUpload ==
    /\ ~isLoading
    /\ loadsStarted < MaxLoads
    /\ \E files \in FileLists :
          CASE files = "none" -> UNCHANGED uploaderVars
            [] files = "noAudio" ->
                  \* the throw ahead of setInterval, the catch and the finally
                  /\ isLoading' = FALSE
                  /\ status' = "error"
                  /\ progress' = 0
                  /\ loadsStarted' = loadsStarted + 1
                  /\ lastFinished' = << [handler |-> "file", timer |-> 0,
                                         outcome |-> "error"] >>
                  /\ UNCHANGED <<inFlight, progressTimers>>
            [] files = "audio" -> HandlerStarts("file")
    /\ UNCHANGED <<coreVars, pageVars, videoVars, datasetVars>>

\* handleKaggleDataset; the form's button is disabled while isLoading.
HandleKaggleDataset ==
    /\ ~isLoading
    /\ loadsStarted < MaxLoads
    /\ HandlerStarts("kaggle")
    /\ UNCHANGED <<coreVars, pageVars, videoVars, datasetVars>>

\* handleURLDataset; the form's button is disabled while isLoading.
HandleURLDataset ==
    /\ ~isLoading
    /\ loadsStarted < MaxLoads
    /\ HandlerStarts("url")
    /\ UNCHANGED <<coreVars, pageVars, videoVars, datasetVars>>

\* A running progress timer fires: setProgress(prev => Math.min(prev + step, 90)).
ProgressTimerFires ==
    /\ \E t \in progressTimers : progress' = Advance(progress, t.step)
    /\ UNCHANGED <<isLoading, status, loadsStarted, inFlight, progressTimers, lastFinished>>
    /\ UNCHANGED <<coreVars, pageVars, videoVars, datasetVars>>

\* loadDataset resolves: the rest of the try block, then the finally.
LoadDatasetResolves ==
    /\ inFlight # <<>>
    /\ progressTimers' = {t \in progressTimers : t.id # inFlight[1].timer}
    /\ progress' = 100
    /\ status' = "success"
    /\ isLoading' = FALSE
    /\ inFlight' = <<>>
    /\ lastFinished' = << [handler |-> inFlight[1].handler, timer |-> inFlight[1].timer,
                           outcome |-> "success"] >>
    /\ UNCHANGED loadsStarted
    /\ UNCHANGED <<coreVars, pageVars, videoVars, datasetVars>>

\* loadDataset rejects (a file that does not decode, a fetch that fails; the
\* Kaggle loader has nothing that fails): the catch, then the finally.  The
\* clearInterval of the try block is skipped.
LoadDatasetRejects ==
    /\ inFlight # <<>>
    /\ inFlight[1].handler \in {"file", "url"}
    /\ status' = "error"
    /\ isLoading' = FALSE
    /\ inFlight' = <<>>
    /\ lastFinished' = << [handler |-> inFlight[1].handler, timer |-> inFlight[1].timer,
                           outcome |-> "error"] >>
    /\ UNCHANGED <<progress, loadsStarted, progressTimers>>
    /\ UNCHANGED <<coreVars, pageVars, videoVars, datasetVars>>

NextUploader ==
    \/ HandleFileUpload
    \/ HandleKaggleDataset
    \/ HandleURLDataset
    \/ ProgressTimerFires
    \/ LoadDatasetResolves
    \/ LoadDatasetRejects

SpecUploader == Init /\ [][NextUploader]_vars


\* ------------------------------------------------------- the dataset manager

\* loadDataset calls.
MaxDatasetLoads == 2

\* `kaggle-${Date.now()}`, `local-${Date.now()}`, `url-${Date.now()}`: the
\* prefix and the clock reading.
DatasetId(type, t) == <<type, t>>

\* An id no load builds.
UnknownId == <<"no-such-dataset">>

\* Where the map holds the key, or 0.
IndexOf(entries, id) ==
    IF \E i \in 1..Len(entries) : entries[i].id = id
    THEN CHOOSE i \in 1..Len(entries) : entries[i].id = id
    ELSE 0

\* Map.set: a new key is added at the end, a key already held keeps its
\* place and gets the new value.
MapSet(entries, dataset) ==
    IF IndexOf(entries, dataset.id) = 0
    THEN Append(entries, dataset)
    ELSE [i \in 1..Len(entries) |->
             IF i = IndexOf(entries, dataset.id) THEN dataset ELSE entries[i]]

\* getDataset: <<>> for undefined.
GetDataset(entries, id) ==
    IF IndexOf(entries, id) = 0 THEN <<>> ELSE << entries[IndexOf(entries, id)] >>

\* listDatasets
ListDatasets(entries) == entries

\* The files of a local source.
LocalFileLists ==
    { <<"notes.txt">>,
      <<"a.wav", "notes.txt", "b.wav", "c.wav">>,
      <<"a.wav", "broken.wav">> }

\* file.type.startsWith("audio/")
IsAudio(file) == file \in {"a.wav", "b.wav", "c.wav", "broken.wav"}

\* processAudioFile rejects: the file does not decode.
Undecodable(file) == file = "broken.wav"

\* The samples loadLocalDataset builds, one for each audio file in order;
\* the random part of a sample's id is the file's place in the list.
RECURSIVE LocalSamples(_, _, _)
LocalSamples(files, i, t) ==
    IF i > Len(files) THEN <<>>
    ELSE IF IsAudio(files[i])
         THEN << [id |-> <<"sample", t, i>>, filename |-> files[i]] >>
                  \o LocalSamples(files, i + 1, t)
         ELSE LocalSamples(files, i + 1, t)

\* The samples of the manifest behind a URL: data.samples || [].
ManifestSamples ==
    { <<>>,
      << [id |-> <<"sample", 0, 1>>, filename |-> "x.wav"],
         [id |-> <<"sample", 0, 2>>, filename |-> "y.wav"] >> }

\* The sources handed to loadDataset; "ftp" stands for a type the switch
\* does not know.
Sources ==
    {[type |-> "kaggle"]}
        \cup {[type |-> "local", files |-> f] : f \in LocalFileLists}
        \cup {[type |-> "url", fetched |-> FALSE]}
        \cup {[type |-> "url", fetched |-> TRUE, samples |-> m] : m \in ManifestSamples}
        \cup {[type |-> "ftp"]}

\* The loader of the source's type rejects, or the switch throws.
LoadRejects(source) ==
    CASE source.type = "kaggle" -> FALSE
      [] source.type = "local" -> \E i \in 1..Len(source.files) : Undecodable(source.files[i])
      [] source.type = "url" -> ~source.fetched
      [] OTHER -> TRUE

\* The dataset the loader of the source's type builds at clock reading t.
LoadedDataset(source, t) ==
    CASE source.type = "kaggle" ->
            [id |-> DatasetId("kaggle", t), name |-> "Kaggle Cough Dataset",
             samples |-> <<>>, createdAt |-> t]
      [] source.type = "local" ->
            [id |-> DatasetId("local", t), name |-> "Local Cough Dataset",
             samples |-> LocalSamples(source.files, 1, t), createdAt |-> t]
      [] source.type = "url" ->
            [id |-> DatasetId("url", t), name |-> "URL Dataset",
             samples |-> source.samples, createdAt |-> t]

\* loadDataset
LoadDataset ==
    /\ loadsDone < MaxDatasetLoads
    /\ split = <<>>
    /\ loadsDone' = loadsDone + 1
    /\ \E source \in Sources :
          IF LoadRejects(source)
          THEN /\ loadCall' = << [source |-> source, outcome |-> "rejected",
                                  before |-> datasets] >>
               /\ UNCHANGED datasets
          ELSE /\ datasets' = MapSet(datasets, LoadedDataset(source, now))
               /\ loadCall' = << [source |-> source, outcome |-> "returned",
                                  before |-> datasets,
                                  dataset |-> LoadedDataset(source, now),
                                  returned |-> LoadedDataset(source, now).id] >>
    /\ UNCHANGED split
    /\ UNCHANGED <<coreVars, pageVars, videoVars, uploaderVars>>

\* getSamples without a condition: the dataset's own list, or [].
GetSamples(entries, id) ==
    IF GetDataset(entries, id) = <<>> THEN <<>> ELSE GetDataset(entries, id)[1].samples

\* The train ratios handed to splitDataset; 0.8 is the default.
TrainRatios == {Rat(0, 1), Rat(1, 2), Rat(4, 5), Rat(1, 1)}

\* Mutant: the split index rounded up.
MathCeil(x) == -((-x.n) \div x.d)

\* Math.floor of a number that is not NaN
MathFloor(x) == x.n \div x.d

\* Math.floor(samples.length * trainRatio)
SplitIndex(n, trainRatio) == MathFloor(Mul(Rat(n, 1), trainRatio))

\* array.slice(from, to), from and to counted from 0
Slice(array, from, to) == SubSeq(array, from + 1, to)

\* [...samples].sort(() => Math.random() - 0.5): a copy in some order.
Shuffles(samples) ==
    {[i \in 1..Len(samples) |-> samples[p[i]]] : p \in Permutations(1..Len(samples))}

\* splitDataset
SplitDataset ==
    /\ split = <<>>
    /\ \E id \in {datasets[i].id : i \in 1..Len(datasets)} \cup {UnknownId},
          trainRatio \in TrainRatios :
          \E shuffled \in Shuffles(GetSamples(datasets, id)) :
             split' = << [datasetId |-> id, trainRatio |-> trainRatio,
                          samples |-> GetSamples(datasets, id),
                          train |-> Slice(shuffled, 0,
                                          SplitIndex(Len(shuffled), trainRatio)),
                          validation |-> Slice(shuffled,
                                               SplitIndex(Len(shuffled), trainRatio),
                                               Len(shuffled))] >>
    /\ UNCHANGED <<datasets, loadsDone, loadCall>>
    /\ UNCHANGED <<coreVars, pageVars, videoVars, uploaderVars>>

\* The split has been taken.
TakeSplit ==
    /\ split # <<>>
    /\ split' = <<>>
    /\ UNCHANGED <<datasets, loadsDone, loadCall>>
    /\ UNCHANGED <<coreVars, pageVars, videoVars, uploaderVars>>

NextDatasets ==
    \/ Tick
    \/ LoadDataset
    \/ SplitDataset
    \/ TakeSplit

SpecDatasets == Init /\ [][NextDatasets]_vars


\* ------------------------------------------------------------------ claims

\* analyzeCoughCharacteristics has returned or thrown.
AnalyzeEnded == analysis # <<>> \/ analyzeError # "none"

StepsComputed == {computed[i] : i \in 1..Len(computed)}

\* The pushed entry of a condition, by name.
RawOf(name) == pushed[CHOOSE i \in 1..Len(pushed) : pushed[i].name = name]

RECURSIVE SumProbabilities(_)
SumProbabilities(cs) ==
    IF cs = <<>> THEN Zero ELSE Add(Head(cs).probability, SumProbabilities(Tail(cs)))

AllRawScoresZero == \A i \in 1..Len(pushed) : pushed[i].probability = Zero

\* Strictly more than half of the frames match the wheeze pattern.
WheezeFires(mfcc) ==
    2 * Cardinality({f \in 1..Len(mfcc) :
                        Gt(mfcc[f].c2, Rat(5, 10)) /\ Lt(mfcc[f].c3, Rat(-3, 10))})
        > Len(mfcc)

AllCovidRulesFire(a) ==
    /\ Gt(a.duration, Rat(5, 10)) /\ Lt(a.duration, Rat(2, 1))
    /\ Lt(a.rms, Rat(1, 10))
    /\ Gt(a.zeroCrossingRate, Rat(1, 10))
    /\ Gt(a.spectralCentroid, Rat(2000, 1))

AllAsthmaRulesFire(a) ==
    /\ Gt(a.duration, Rat(1, 1))
    /\ Lt(a.spectralCentroid, Rat(1500, 1))
    /\ WheezeFires(a.mfccFeatures)

\* C1 (as claimed): extractMFCCFeatures on a waveform of N samples yields
\* floor((N - 2048) / 512) + 1 frames when N >= 2048 and, without an error,
\* zero frames when N < 2048.
C1_FrameCountAsClaimed ==
    extracted # <<>> =>
        LET n == audioBuffer[1].length
        IN  /\ extracted[1].thrown = "none"
            /\ Len(extracted[1].features)
                   = IF n >= 2048 THEN ((n - 2048) \div 512) + 1 ELSE 0

\* C2 (as claimed): analyzeCoughCharacteristics on a waveform of at least one
\* sample returns one Analysis Record and does not end in an error.
C2_NonEmptyWaveformAnalysed ==
    (AnalyzeEnded /\ audioBuffer[1].length >= 1) =>
        /\ analyzeError = "none"
        /\ Len(analysis) = 1

\* C3 (as claimed): on an empty waveform analyzeCoughCharacteristics fails with
\* InvalidInput before RMS, zero-crossing rate or spectral centroid are
\* computed, and produces no Analysis Record.
C3_EmptyWaveformFailsFast ==
    (AnalyzeEnded /\ audioBuffer[1].length = 0) =>
        /\ analyzeError = "InvalidInput"
        /\ StepsComputed \cap {"rms", "zeroCrossingRate", "spectralCentroid"} = {}
        /\ analysis = <<>>

\* C4: every raw (pre-normalisation) score of a classification lies in
\* [0, 0.95], and a condition all of whose rules fire (a rule sum of 1.0)
\* has the raw score 0.95.
C4_RawScoresWithinCap ==
    classification # <<>> =>
        /\ Len(pushed) = 4
        /\ \A i \in 1..Len(pushed) :
              /\ ~IsNaN(pushed[i].probability)
              /\ ~Lt(pushed[i].probability, Zero)
              /\ ~Gt(pushed[i].probability, Rat(95, 100))
        /\ AllCovidRulesFire(request[1]) => RawOf("COVID-19").probability = Rat(95, 100)
        /\ AllAsthmaRulesFire(request[1]) => RawOf("Asthma").probability = Rat(95, 100)

\* C4 witness: a record on which all four COVID-19 rules fire has been
\* classified and its raw score is the cap.
C4_Witness ==
    /\ classification # <<>>
    /\ AllCovidRulesFire(request[1])
    /\ RawOf("COVID-19").probability = Rat(95, 100)

\* C5: when some raw score is nonzero, the probabilities of the result sum to
\* 100 and each is its raw score divided by the sum of the raw scores, times
\* 100.
C5_ProbabilitiesSumTo100 ==
    (classification # <<>> /\ ~AllRawScoresZero) =>
        LET cs == classification[1].conditions
            rawTotal == SumProbabilities(pushed)
        IN  /\ SumProbabilities(cs) = Rat(100, 1)
            /\ \A j \in 1..Len(cs) :
                  cs[j].probability
                      = Div(Mul(RawOf(cs[j].name).probability, Rat(100, 1)), rawTotal)

\* C5 witness: a classification whose raw scores are partly zero and partly
\* not.
C5_Witness ==
    /\ classification # <<>>
    /\ \E i \in 1..Len(pushed) : pushed[i].probability = Zero
    /\ \E i \in 1..Len(pushed) : pushed[i].probability = Rat(8, 10)

\* C6 (as claimed): when all raw scores are zero, every probability of the
\* result is zero and the dominant condition is "Unknown".
C6_AllZeroIsUnknown ==
    (classification # <<>> /\ AllRawScoresZero) =>
        /\ \A j \in 1..Len(classification[1].conditions) :
              classification[1].conditions[j].probability = Zero
        /\ classification[1].dominantCondition = "Unknown"

\* C7: the conditions of a result are in order of non-increasing probability,
\* the dominant condition is the name of the first, no condition has a larger
\* probability than the first, and the overall confidence is the first's band.
C7_OrderedAndDominantFirst ==
    classification # <<>> =>
        LET cs == classification[1].conditions
        IN  /\ Len(cs) = 4
            /\ \A j \in 1..(Len(cs) - 1) : ~Lt(cs[j].probability, cs[j + 1].probability)
            /\ \A j \in 1..Len(cs) : ~Gt(cs[j].probability, cs[1].probability)
            /\ classification[1].dominantCondition = cs[1].name
            /\ classification[1].overallConfidence = cs[1].confidence

\* C7 witness: the condition pushed last leads the result, ahead of a
\* condition with a smaller, nonzero probability.
C7_Witness ==
    /\ classification # <<>>
    /\ classification[1].dominantCondition = "Pneumonia"
    /\ Gt(classification[1].conditions[1].probability,
          classification[1].conditions[2].probability)
    /\ Gt(classification[1].conditions[2].probability, Zero)

\* The band the thresholds give a raw score s.
BandOf(s) ==
    IF Gt(s, Rat(6, 10)) THEN "high"
    ELSE IF Gt(s, Rat(3, 10)) /\ ~Gt(s, Rat(6, 10)) THEN "medium"
    ELSE "low"

\* C8: the band of every condition is that of its raw score alone ("high" iff
\* s > 0.6, "medium" iff 0.3 < s <= 0.6, "low" otherwise), in the list as
\* pushed and, unchanged by the normalisation, in the result.
C8_BandFromRawScore ==
    classification # <<>> =>
        /\ \A i \in 1..Len(pushed) : pushed[i].confidence = BandOf(pushed[i].probability)
        /\ \A j \in 1..Len(classification[1].conditions) :
              LET c == classification[1].conditions[j]
              IN  c.confidence = BandOf(RawOf(c.name).probability)

\* C8 witness: the dominant condition has the raw score 0.6 exactly and is
\* "medium", with a normalised percentage above 30.
C8_Witness ==
    /\ classification # <<>>
    /\ LET c == classification[1].conditions[1]
       IN  /\ RawOf(c.name).probability = Rat(6, 10)
           /\ c.confidence = "medium"
           /\ Gt(c.probability, Rat(30, 1))

\* C9 (as claimed): a condition whose raw score is exactly 0.3 has the band
\* "medium".
C9_ThreeTenthsIsMedium ==
    classification # <<>> =>
        \A i \in 1..Len(pushed) :
            pushed[i].probability = Rat(3, 10) => pushed[i].confidence = "medium"

\* C9 (amended): a condition whose raw score is exactly 0.3 has the band
\* "low", in the list as pushed and in the result.
C9_ThreeTenthsIsLow ==
    classification # <<>> =>
        /\ \A i \in 1..Len(pushed) :
              pushed[i].probability = Rat(3, 10) => pushed[i].confidence = "low"
        /\ \A j \in 1..Len(classification[1].conditions) :
              LET c == classification[1].conditions[j]
              IN  RawOf(c.name).probability = Rat(3, 10) => c.confidence = "low"

\* C9 witness: a classified condition with the raw score 0.3 exactly.
C9_Witness ==
    /\ classification # <<>>
    /\ \E i \in 1..Len(pushed) :
          pushed[i].probability = Rat(3, 10) /\ pushed[i].confidence = "low"

\* One second of silence has been analysed and its record classified.
SilentSecondClassified ==
    /\ audioBuffer # <<>>
    /\ audioBuffer[1].length = SampleRate
    /\ analysis # <<>>
    /\ request = analysis
    /\ classification # <<>>

\* The record of one second of silence.
SilentSecondRecord(a) ==
    /\ a.duration = Rat(1, 1)
    /\ a.rms = Zero
    /\ a.zeroCrossingRate = Zero
    /\ a.spectralCentroid = Zero
    /\ ~WheezeFires(a.mfccFeatures)

\* What the rules keyed on the duration alone add to each raw score.
DurationOnlyScores(d) ==
    << IF Gt(d, Rat(5, 10)) /\ Lt(d, Rat(2, 1)) THEN Rat(3, 10) ELSE Zero,
       IF Gt(d, Rat(1, 1)) THEN Rat(3, 10) ELSE Zero,
       IF Gt(d, Rat(8, 10)) THEN Rat(2, 10) ELSE Zero,
       IF Lt(d, Rat(15, 10)) THEN Rat(2, 10) ELSE Zero >>

\* C10 (as claimed): for one second of silence only rules keyed on the
\* duration alone contribute to the raw scores, and the probabilities sum to
\* 100.
C10_SilenceOnlyDurationRules ==
    SilentSecondClassified =>
        /\ SilentSecondRecord(request[1])
        /\ \A i \in 1..4 :
              pushed[i].probability = DurationOnlyScores(request[1].duration)[i]
        /\ SumProbabilities(classification[1].conditions) = Rat(100, 1)

\* C10 (amended): for one second of silence the record is duration 1.0, RMS 0,
\* zero-crossing rate 0, centroid 0, no wheeze; the raw scores are 0.5, 0.3,
\* 0.5, 0.5 (the rules a zero statistic satisfies, rms < 0.1, centroid < 1500,
\* centroid < 2000 and zero-crossing rate < 0.08, fire beside the duration
\* rules 0.5 < duration < 2.0, duration > 0.8 and duration < 1.5); the dominant
\* condition is COVID-19, first of the three tied at 0.5; the probabilities
\* sum to 100.
C10_SilenceScores ==
    SilentSecondClassified =>
        /\ SilentSecondRecord(request[1])
        /\ pushed[1].name = "COVID-19" /\ pushed[1].probability = Rat(5, 10)
        /\ pushed[2].name = "Asthma" /\ pushed[2].probability = Rat(3, 10)
        /\ pushed[3].name = "Bronchitis" /\ pushed[3].probability = Rat(5, 10)
        /\ pushed[4].name = "Pneumonia" /\ pushed[4].probability = Rat(5, 10)
        /\ classification[1].dominantCondition = "COVID-19"
        /\ SumProbabilities(classification[1].conditions) = Rat(100, 1)

\* C10 witness: one second of silence, analysed into 83 frames and classified.
C10_Witness ==
    /\ SilentSecondClassified
    /\ Len(request[1].mfccFeatures) = 83
    /\ classification[1].conditions[1].probability = Rat(250, 9)

\* Two Classification Results alike in all but the timestamp.
SameModuloTimestamp(c1, c2) ==
    /\ c1.conditions = c2.conditions
    /\ c1.dominantCondition = c2.dominantCondition
    /\ c1.overallConfidence = c2.overallConfidence

AllWellFormed == \A i \in 1..Len(batchInput) : ~Malformed(batchInput[i])

\* C12: batchClassify on n Analysis Records returns n results, and result i
\* is, but for the timestamp, what a classifyCough call on record i alone
\* returned, whatever the other records of the batch and the calls before.
C12_BatchIsPointwise ==
    /\ Len(results) <= Len(batchInput)
    /\ (batchState \in {"returned", "rejected"} /\ AllWellFormed)
           => (batchState = "returned" /\ Len(results) = Len(batchInput))
    /\ \A i \in 1..Len(results) :
          (classification # <<>> /\ request[1] = batchInput[i])
              => /\ results[i].conditions = classification[1].conditions
                 /\ results[i].dominantCondition = classification[1].dominantCondition
                 /\ results[i].overallConfidence = classification[1].overallConfidence

\* C12 witness: a batch of different records has returned, and its last
\* record has also been classified alone.
C12_Witness ==
    /\ batchState = "returned"
    /\ Len(results) >= 2
    /\ batchInput[1] # batchInput[Len(batchInput)]
    /\ classification # <<>>
    /\ request[1] = batchInput[Len(batchInput)]
    /\ results[1].conditions # classification[1].conditions

\* C13 (as claimed): when the classification of one record of a batch fails,
\* the failure reaches the caller and every Analysis Record of the batch,
\* those after the failing one included, is still classified.
C13_LaterRecordsStillClassified ==
    batchState = "rejected" =>
        /\ batchError # "none"
        /\ Len(results) = Cardinality({j \in 1..Len(batchInput) : ~Malformed(batchInput[j])})

\* The classifier called has a field that says its model is not loaded.
ModelNotLoaded == isLoaded = FALSE \/ model = "null"

\* C14: classifyCough on a classifier whose model is not loaded (isLoaded
\* false or model null) throws "Model not loaded" and yields no Classification
\* Result, alone and as a turn of batchClassify; on a loaded classifier it
\* does not throw that error.
C14_NotLoadedFails ==
    /\ (request # <<>> /\ ModelNotLoaded) =>
           /\ classifyError = "Model not loaded"
           /\ classification = <<>>
    /\ (batchInput # <<>> /\ ModelNotLoaded) =>
           /\ batchState = "rejected"
           /\ batchError = "Model not loaded"
           /\ results = <<>>
    /\ ~ModelNotLoaded => (classifyError # "Model not loaded" /\ batchError # "Model not loaded")

\* C14 witness: classifyCough has thrown on a classifier whose flag is set
\* and whose model is null.
C14_Witness ==
    /\ request # <<>>
    /\ ~Malformed(request[1])
    /\ isLoaded
    /\ model = "null"
    /\ classifyError = "Model not loaded"

\* The frames of a feature set that match the wheeze pattern.
MatchingFrames(mfcc) ==
    Cardinality({f \in 1..Len(mfcc) :
                    Gt(mfcc[f].c2, Rat(5, 10)) /\ Lt(mfcc[f].c3, Rat(-3, 10))})

\* C15: detectWheezing over numFrames frames fires iff strictly more than
\* numFrames/2 frames have coefficient 2 > 0.5 and coefficient 3 < -0.3: with
\* floor(numFrames/2) + 1 matching frames it fires, with floor(numFrames/2) it
\* does not, and with no frame it does not.
C15_WheezeStrictMajority ==
    (probe # <<>> /\ probe[1].call = "detectWheezing") =>
        LET mfcc == probe[1].mfccFeatures
            numFrames == Len(mfcc)
            matching == MatchingFrames(mfcc)
        IN  /\ probe[1].wheezing <=> (2 * matching > numFrames)
            /\ matching = (numFrames \div 2) + 1 => probe[1].wheezing
            /\ matching = numFrames \div 2 => ~probe[1].wheezing
            /\ numFrames = 0 => ~probe[1].wheezing

\* C15 witness: four frames of which two match, and the heuristic has not
\* fired.
C15_Witness ==
    /\ probe # <<>>
    /\ probe[1].call = "detectWheezing"
    /\ Len(probe[1].mfccFeatures) = 4
    /\ MatchingFrames(probe[1].mfccFeatures) = 2
    /\ ~probe[1].wheezing

\* weight if the rule fires, else 0
Weighted(weight, fires) == IF fires THEN weight ELSE Zero

\* The lesser of 0.95 and s.
AtMostCap(s) == IF Gt(s, Rat(95, 100)) THEN Rat(95, 100) ELSE s

\* C16: the raw score of COVID-19 is min(0.95, 0.3[0.5 < duration < 2.0]
\* + 0.2[rms < 0.1] + 0.2[zcr > 0.1] + 0.3[centroid > 2000]) and that of Asthma
\* is min(0.95, 0.3[duration > 1.0] + 0.3[centroid < 1500] + 0.4[wheeze]), the
\* comparisons strict; each is 0.95 exactly when all its rules fire.
C16_CovidAndAsthmaScores ==
    classification # <<>> =>
        LET a == request[1]
            covid == Add(Add(Add(
                         Weighted(Rat(3, 10),
                                  Gt(a.duration, Rat(5, 10)) /\ Lt(a.duration, Rat(2, 1))),
                         Weighted(Rat(2, 10), Lt(a.rms, Rat(1, 10)))),
                         Weighted(Rat(2, 10), Gt(a.zeroCrossingRate, Rat(1, 10)))),
                         Weighted(Rat(3, 10), Gt(a.spectralCentroid, Rat(2000, 1))))
            asthma == Add(Add(
                          Weighted(Rat(3, 10), Gt(a.duration, Rat(1, 1))),
                          Weighted(Rat(3, 10), Lt(a.spectralCentroid, Rat(1500, 1)))),
                          Weighted(Rat(4, 10), WheezeFires(a.mfccFeatures)))
        IN  /\ RawOf("COVID-19").probability = AtMostCap(covid)
            /\ RawOf("Asthma").probability = AtMostCap(asthma)
            /\ RawOf("COVID-19").probability = Rat(95, 100) <=> AllCovidRulesFire(a)
            /\ RawOf("Asthma").probability = Rat(95, 100) <=> AllAsthmaRulesFire(a)

\* C16 witness: a record of duration 1.0 exactly, on which the duration rule
\* of COVID-19 fires and that of Asthma does not, the other two Asthma rules
\* firing.
C16_Witness ==
    /\ classification # <<>>
    /\ request[1].duration = Rat(1, 1)
    /\ WheezeFires(request[1].mfccFeatures)
    /\ RawOf("Asthma").probability = Rat(7, 10)
    /\ RawOf("COVID-19").probability = Rat(7, 10)

\* C17: the raw score of Bronchitis is 0.3[rms > 0.15] + 0.2[duration > 0.8]
\* + 0.3[centroid < 2000] and that of Pneumonia is 0.2[rms > 0.12]
\* + 0.2[duration < 1.5] + 0.3[zcr < 0.08], the comparisons strict; they are
\* at most 0.8 and 0.7, below the cap.
C17_BronchitisAndPneumoniaScores ==
    classification # <<>> =>
        LET a == request[1]
            bronchitis == Add(Add(
                              Weighted(Rat(3, 10), Gt(a.rms, Rat(15, 100))),
                              Weighted(Rat(2, 10), Gt(a.duration, Rat(8, 10)))),
                              Weighted(Rat(3, 10), Lt(a.spectralCentroid, Rat(2000, 1))))
            pneumonia == Add(Add(
                             Weighted(Rat(2, 10), Gt(a.rms, Rat(12, 100))),
                             Weighted(Rat(2, 10), Lt(a.duration, Rat(15, 10)))),
                             Weighted(Rat(3, 10), Lt(a.zeroCrossingRate, Rat(8, 100))))
        IN  /\ RawOf("Bronchitis").probability = bronchitis
            /\ RawOf("Pneumonia").probability = pneumonia
            /\ ~Gt(RawOf("Bronchitis").probability, Rat(8, 10))
            /\ ~Gt(RawOf("Pneumonia").probability, Rat(7, 10))

\* C17 witness: a record of rms 0.15 exactly, on which the rms rule of
\* Bronchitis does not fire and that of Pneumonia does, Pneumonia being at its
\* maximum 0.7.
C17_Witness ==
    /\ classification # <<>>
    /\ request[1].rms = Rat(15, 100)
    /\ RawOf("Bronchitis").probability = Rat(5, 10)
    /\ RawOf("Pneumonia").probability = Rat(7, 10)

\* C18 (as claimed): the zero-crossing rate of every waveform is in [0, 1]; it
\* is the number of indices i >= 1 where (x[i] >= 0) differs from
\* (x[i-1] >= 0), at most N - 1, divided by the sample count N.
C18_ZeroCrossingRateInUnitInterval ==
    (probe # <<>> /\ probe[1].call = "calculateZeroCrossingRate") =>
        LET x == probe[1].signal
            N == Len(x)
            flips == Cardinality({i \in 2..N : (x[i] >= 0) # (x[i - 1] >= 0)})
            zcr == probe[1].zeroCrossingRate
        IN  /\ probe[1].crossings = flips
            /\ flips <= N - 1
            /\ ~IsNaN(zcr)
            /\ ~Lt(zcr, Zero)
            /\ ~Gt(zcr, Rat(1, 1))
            /\ zcr = Rat(flips, N)

\* C19: the spectral centroid of a waveform whose magnitudes sum to 0, as
\* those of every all-zero waveform do, is 0: a number, not the NaN of 0 / 0,
\* and computed without an error.
C19_ZeroMagnitudeCentroidIsZero ==
    (computed # <<>> /\ MagnitudeSum(audioBuffer[1]) = Zero) =>
        /\ "spectralCentroid" \in StepsComputed
        /\ ~IsNaN(stats[1].spectralCentroid)
        /\ stats[1].spectralCentroid = Zero
        /\ analysis # <<>> => analysis[1].spectralCentroid = Zero

\* C19 witness: one second of silence has been analysed and its centroid is 0.
C19_Witness ==
    /\ computed # <<>>
    /\ audioBuffer[1].length = SampleRate
    /\ stats[1].spectralCentroid = Zero
    /\ analysis # <<>>

\* C20: once its constructor has returned, a classifier has its model set and
\* isLoaded true, and no classifyCough or batchClassify call on it ends in
\* "Model not loaded".
C20_ReadyOnceConstructed ==
    /\ constructed => (isLoaded /\ model # "null")
    /\ second.constructed => (second.isLoaded /\ second.model # "null")
    /\ classifyError # "Model not loaded"
    /\ batchError # "Model not loaded"

\* C20 witness: both classifiers constructed, the first has classified a
\* record alone and the second a batch.
C20_Witness ==
    /\ constructed
    /\ second.constructed
    /\ classification # <<>>
    /\ batchOn = 2
    /\ batchState = "returned"
    /\ Len(results) >= 1

\* C21 (as claimed): for each windowed frame of N = 2048 samples the transform
\* has 2N values and the power spectrum computed from it, over which the
\* cepstral projection sums, has N/2 bins.
C21_PowerSpectrumHalfFrame ==
    extracted # <<>> =>
        \A f \in 1..Len(extracted[1].turns) :
            LET turn == extracted[1].turns[f]
                N == turn.end - turn.start
            IN  /\ turn.fftLength = 2 * N
                /\ turn.powerSpectrumLength = N \div 2

\* The entries of the feature set written by the frame loop, in order.
RECURSIVE WrittenEntries(_)
WrittenEntries(turns) ==
    IF turns = <<>> THEN <<>>
    ELSE WrittenEntries(SubSeq(turns, 1, Len(turns) - 1)) \o turns[Len(turns)].written

\* C22: a feature set returned by extractMFCCFeatures has numFrames * 13
\* entries; frame f (from 0) is computed from the 2048 samples
\* [512f, 512f + 2048), all inside the waveform, and its 13 coefficients are
\* written to the entries [13f, 13f + 13), so the entries are written in
\* order, each once.
C22_FeatureSetIsConcatenation ==
    (extracted # <<>> /\ extracted[1].thrown = "none") =>
        LET x == extracted[1]
            n == audioBuffer[1].length
            entries == WrittenEntries(x.turns)
        IN  /\ Len(x.turns) = x.numFrames
            /\ Len(x.features) = x.numFrames
            /\ x.allocated = x.numFrames * 13
            /\ \A f \in 1..Len(x.turns) :
                  /\ x.turns[f].start = 512 * (f - 1)
                  /\ x.turns[f].end = 512 * (f - 1) + 2048
                  /\ x.turns[f].end <= n
                  /\ \A i \in 1..13 : x.turns[f].written[i] = 13 * (f - 1) + (i - 1)
            /\ Len(entries) = x.allocated
            /\ \A e \in 1..Len(entries) : entries[e] = e - 1

\* C22 witness: a waveform of 3199 samples, one short of a fourth frame, has
\* been cut into three frames.
C22_Witness ==
    /\ extracted # <<>>
    /\ audioBuffer[1].length = 3199
    /\ extracted[1].thrown = "none"
    /\ Len(extracted[1].turns) = 3
    /\ extracted[1].turns[3].end = 3072

\* The place of a condition in the list as pushed.
InsertionIndex(name) == CHOOSE i \in 1..Len(pushed) : pushed[i].name = name

\* C23: conditions of equal raw score stand in the result in the order they
\* were pushed (COVID-19, Asthma, Bronchitis, Pneumonia), and the dominant
\* condition is the first pushed of those that share the top raw score.
C23_TiesInInsertionOrder ==
    classification # <<>> =>
        LET cs == classification[1].conditions
            top == CHOOSE i \in 1..Len(pushed) :
                       /\ \A k \in 1..Len(pushed) :
                             ~Gt(pushed[k].probability, pushed[i].probability)
                       /\ \A k \in 1..(i - 1) :
                             Lt(pushed[k].probability, pushed[i].probability)
        IN  /\ <<pushed[1].name, pushed[2].name, pushed[3].name, pushed[4].name>>
                   = <<"COVID-19", "Asthma", "Bronchitis", "Pneumonia">>
            /\ \A j, k \in 1..Len(cs) :
                  (j < k /\ RawOf(cs[j].name).probability = RawOf(cs[k].name).probability)
                      => InsertionIndex(cs[j].name) < InsertionIndex(cs[k].name)
            /\ classification[1].dominantCondition = pushed[top].name

\* C23 witness: Asthma and Pneumonia share the top raw score, above a nonzero
\* COVID-19, and Asthma is the dominant condition.
C23_Witness ==
    /\ classification # <<>>
    /\ RawOf("Asthma").probability = RawOf("Pneumonia").probability
    /\ Gt(RawOf("Asthma").probability, RawOf("COVID-19").probability)
    /\ Gt(RawOf("Asthma").probability, RawOf("Bronchitis").probability)
    /\ Gt(RawOf("COVID-19").probability, Zero)
    /\ classification[1].dominantCondition = "Asthma"
    /\ classification[1].conditions[2].name = "Pneumonia"

\* C24: for a record whose duration is not NaN some raw score is nonzero (the
\* duration is above 0.8 or below 1.5), so the sum of the raw scores is above
\* 0, the probabilities are normalised to sum to 100, and the dominant
\* condition is not "Unknown".
C24_SomeRuleAlwaysFires ==
    (classification # <<>> /\ ~IsNaN(request[1].duration)) =>
        /\ Gt(request[1].duration, Rat(8, 10)) \/ Lt(request[1].duration, Rat(15, 10))
        /\ Gt(RawOf("Bronchitis").probability, Zero)
               \/ Gt(RawOf("Pneumonia").probability, Zero)
        /\ Gt(SumProbabilities(pushed), Zero)
        /\ SumProbabilities(classification[1].conditions) = Rat(100, 1)
        /\ classification[1].dominantCondition # "Unknown"

\* C24 witness: a short cough on which the duration rule of Pneumonia alone
\* fires; Pneumonia has all of the 100.
C24_Witness ==
    /\ classification # <<>>
    /\ request[1].duration = Rat(3, 10)
    /\ SumProbabilities(pushed) = Rat(2, 10)
    /\ classification[1].dominantCondition = "Pneumonia"
    /\ classification[1].conditions[1].probability = Rat(100, 1)

\* The page state startAnalysis, resetTest and handleAnalysisComplete write,
\* with the capture component.
PageState == <<currentStep, isAnalyzing, currentResult, history, hasConsented, capture>>

\* C25: once an analysis has started (currentStep = capture, isAnalyzing = true),
\* under fairness of every enabled user action and pending callback the page
\* eventually leaves the capture step, for the results step or for landing.
C25_EventuallyLeavesCapture ==
    (currentStep = "capture" /\ isAnalyzing) ~> (currentStep \in {"results", "landing"})

\* C26: in every reachable state of the page the step is other than landing,
\* or isAnalyzing is true, only if hasConsented is true; and a call of
\* startAnalysis while hasConsented is false changes no state of the page.
C26_NoCaptureWithoutConsent ==
    /\ []((currentStep \in {"capture", "analysis", "results"} \/ isAnalyzing) => hasConsented)
    /\ [][(~hasConsented /\ StartAnalysis) => UNCHANGED PageState]_vars

\* startAnalysis has been called without consent after an earlier test run,
\* whose consent was withdrawn on the landing view.
C26_Witness ==
    /\ startCall = "returned"
    /\ ~hasConsented
    /\ currentStep = "landing"
    /\ Len(history) > 0

\* C27: when VideoCapture's isRecording is false and no getUserMedia request
\* is pending, no camera track is live and no blink timer is running.
C27_NothingLiveWhenStopped ==
    (~videoRecording /\ videoPending = {}) => (liveStreams = {} /\ blinkTimers = {})

\* C28: once a load handler has finished, by success or by failure, isLoading
\* is false, status is "success" or "error" and no progress timer is left
\* running; and while status is "success" progress is 100.
C28_FinishedLoadLeavesNoTimer ==
    (lastFinished # <<>> /\ inFlight = <<>>) =>
        /\ ~isLoading
        /\ status \in {"success", "error"}
        /\ progressTimers = {}
        /\ status = "success" => progress = 100

\* C29: a loadDataset that succeeds returns an id no stored dataset had, so
\* that listDatasets grows by exactly one, every dataset stored before is
\* still there as it was, and getDataset of the returned id is the dataset
\* just loaded; a loadDataset that fails leaves the stored datasets as they
\* were.
C29_EveryLoadAddsOneDataset ==
    loadCall # <<>> =>
        LET call == loadCall[1] IN
        IF call.outcome = "returned"
        THEN /\ \A i \in 1..Len(call.before) : call.before[i].id # call.returned
             /\ Len(ListDatasets(datasets)) = Len(ListDatasets(call.before)) + 1
             /\ \A i \in 1..Len(call.before) :
                   GetDataset(datasets, call.before[i].id) = << call.before[i] >>
             /\ GetDataset(datasets, call.returned) = << call.dataset >>
        ELSE datasets = call.before

\* The elements of a list.
Elements(list) == {list[i] : i \in 1..Len(list)}

\* C30: splitDataset on a stored dataset of n samples with a trainRatio in
\* [0, 1] returns a train and a validation list that share no sample and
\* together hold each sample of the dataset once, with |train| =
\* floor(n * trainRatio) and |validation| = n - |train|, and leaves the
\* dataset's own list as it was; for an unknown id both lists are empty.
C30_SplitIsAPartition ==
    split # <<>> =>
        LET call == split[1]
            n == Len(call.samples)
            k == Len(call.train)
        IN  IF GetDataset(datasets, call.datasetId) = <<>>
            THEN call.train = <<>> /\ call.validation = <<>>
            ELSE /\ Elements(call.train) \cap Elements(call.validation) = {}
                 /\ Elements(call.train) \cup Elements(call.validation)
                        = Elements(call.samples)
                 /\ k + Len(call.validation) = n
                 /\ k * call.trainRatio.d <= n * call.trainRatio.n
                 /\ n * call.trainRatio.n < (k + 1) * call.trainRatio.d
                 /\ GetSamples(datasets, call.datasetId) = call.samples

\* A dataset of three samples split at the default ratio 0.8: two samples
\* for training, one for validation, in an order other than the dataset's.
C30_Witness ==
    /\ split # <<>>
    /\ Len(split[1].samples) = 3
    /\ split[1].trainRatio = Rat(4, 5)
    /\ Len(split[1].train) = 2
    /\ Len(split[1].validation) = 1
    /\ split[1].train \o split[1].validation # split[1].samples

====
